---- MODULE Spec2Model ----
(***************************************************************************)
(* Model of the bridge transcript parser (src/preprocess/main.py): the     *)
(* token-driven board accumulator parse_bridge_file with its nested        *)
(* flush_board, and the pure helpers get_trump_from_bidding,               *)
(* calculate_tricks_won_by_declarer, determine_trick_winner and            *)
(* get_card_value; and of parse_hand of the dataset loader                 *)
(* (src/local_ml/load_dataset.py).                                         *)
(*                                                                         *)
(* Python strings are sequences of one-character strings, so that strip,   *)
(* upper, split, indexing and int() are computed and not assumed.          *)
(* Python's None is the empty tuple and a present value v is <<v>>.        *)
(***************************************************************************)
EXTENDS Integers, Sequences, FiniteSets, TLC

\* ----------------------------------------------------------------- bounds
\* Play tokens accepted per board by the parser specification.
MaxPlay == 4
\* Bid tokens accepted per board by the parser specification.
MaxBids == 2
\* Board-start tokens accepted per run by the parser specification.
MaxBoards == 2
\* Tokens read per run by the parser specification.
MaxTokens == 8
\* Cards fed to the trick simulation in the simulator specification.
MaxSimCards == 11
\* Bid tokens in a sequence handed to the bidding analyzer specification.
MaxBidLen == 4

\* ------------------------------------------------------------ None / Some
None == <<>>
Some(v) == <<v>>
IsNone(o) == o = <<>>
Val(o) == o[1]

\* --------------------------------------------------------- str primitives
SuitLetters == {"S", "H", "D", "C"}
RankChars == {"2", "3", "4", "5", "6", "7", "8", "9", "A", "K", "Q", "J", "T"}
DigitChars == {"0", "1", "2", "3", "4", "5", "6", "7", "8", "9"}

\* str.upper() on one character (the letters the inputs use).
UpperChar(c) ==
  CASE c = "h" -> "H"
    [] c = "s" -> "S"
    [] c = "d" -> "D"
    [] c = "c" -> "C"
    [] c = "n" -> "N"
    [] c = "a" -> "A"
    [] c = "p" -> "P"
    [] OTHER -> c

Upper(s) == [i \in 1..Len(s) |-> UpperChar(s[i])]

RECURSIVE LStrip(_)
LStrip(s) == IF s # <<>> /\ Head(s) = " " THEN LStrip(Tail(s)) ELSE s

RECURSIVE RStrip(_)
RStrip(s) ==
  IF s # <<>> /\ s[Len(s)] = " " THEN RStrip(SubSeq(s, 1, Len(s) - 1)) ELSE s

\* str.strip()
Strip(s) == RStrip(LStrip(s))

\* str.split(','): the pieces between commas, empty pieces kept.
RECURSIVE SplitFrom(_, _, _)
SplitFrom(s, i, cur) ==
  IF i > Len(s) THEN <<cur>>
  ELSE IF s[i] = "," THEN <<cur>> \o SplitFrom(s, i + 1, <<>>)
  ELSE SplitFrom(s, i + 1, Append(cur, s[i]))

Split(s) == SplitFrom(s, 1, <<>>)

\* str.split('|')
RECURSIVE SplitBarFrom(_, _, _)
SplitBarFrom(s, i, cur) ==
  IF i > Len(s) THEN <<cur>>
  ELSE IF s[i] = "|" THEN <<cur>> \o SplitBarFrom(s, i + 1, <<>>)
  ELSE SplitBarFrom(s, i + 1, Append(cur, s[i]))

SplitBar(s) == SplitBarFrom(s, 1, <<>>)

DigitVal(c) ==
  CASE c = "0" -> 0 [] c = "1" -> 1 [] c = "2" -> 2 [] c = "3" -> 3
    [] c = "4" -> 4 [] c = "5" -> 5 [] c = "6" -> 6 [] c = "7" -> 7
    [] c = "8" -> 8 [] c = "9" -> 9

RECURSIVE DigitsVal(_, _)
DigitsVal(s, acc) ==
  IF s = <<>> THEN acc ELSE DigitsVal(Tail(s), 10 * acc + DigitVal(Head(s)))

AllDigits(s) == s # <<>> /\ \A i \in 1..Len(s) : s[i] \in DigitChars

\* int(s): Some(value) for an optionally signed decimal literal, None where
\* Python raises ValueError.
ParseInt(s) ==
  LET t == Strip(s) IN
  IF AllDigits(t) THEN Some(DigitsVal(t, 0))
  ELSE IF t # <<>> /\ Head(t) = "-" /\ AllDigits(Tail(t))
    THEN Some(0 - DigitsVal(Tail(t), 0))
  ELSE IF t # <<>> /\ Head(t) = "+" /\ AllDigits(Tail(t))
    THEN Some(DigitsVal(Tail(t), 0))
  ELSE None

\* ------------------------------------------------------------ CARD_VALUES
CARD_VALUES(rank) ==
  CASE rank = "2" -> 2 [] rank = "3" -> 3 [] rank = "4" -> 4
    [] rank = "5" -> 5 [] rank = "6" -> 6 [] rank = "7" -> 7
    [] rank = "8" -> 8 [] rank = "9" -> 9 [] rank = "T" -> 10
    [] rank = "J" -> 11 [] rank = "Q" -> 12 [] rank = "K" -> 13
    [] rank = "A" -> 14 [] OTHER -> 0

\* ------------------------------------------------ get_trump_from_bidding
\* The test of line 23 on one bid, after strip().upper().
IsContractBid(b) ==
  Len(b) >= 2 /\ b[1] \in DigitChars /\ b[2] \in {"C", "D", "H", "S", "N"}

suit_map(c) == IF c = "N" THEN <<"N", "T">> ELSE <<c>>

\* Scan from the last bid to the first; the first hit decides.
RECURSIVE ScanBidsBackwards(_, _)
ScanBidsBackwards(bidding_sequence, i) ==
  IF i = 0 THEN None
  ELSE LET bid == Upper(Strip(bidding_sequence[i])) IN
       IF IsContractBid(bid) THEN Some(suit_map(bid[2]))
       ELSE ScanBidsBackwards(bidding_sequence, i - 1)

\* Variant: the first contract bid of the auction decides instead of the last.
get_trump_from_first_bid(bidding_sequence) ==
  IF \A j \in 1..Len(bidding_sequence) :
       ~IsContractBid(Upper(Strip(bidding_sequence[j])))
    THEN None
  ELSE Some(suit_map(Upper(Strip(bidding_sequence[
         CHOOSE j \in 1..Len(bidding_sequence) :
           /\ IsContractBid(Upper(Strip(bidding_sequence[j])))
           /\ \A k \in 1..(j - 1) :
                ~IsContractBid(Upper(Strip(bidding_sequence[k])))]))[2]))

get_trump_from_bidding(bidding_sequence) ==
  IF bidding_sequence = <<>> THEN None
  ELSE ScanBidsBackwards(bidding_sequence, Len(bidding_sequence))

\* --------------------------------------------------------- get_card_value
\* card[0] or card[1] raises IndexError on a card of fewer than 2 characters.
CardRaises(card) == Len(card) < 2

\* Variant: the led-suit test of line 80 is missing, every plain card keeps
\* its rank value.
get_card_value_any_suit(card, led_suit, trump_suit) ==
  IF ~IsNone(trump_suit) /\ <<UpperChar(card[1])>> = Val(trump_suit)
    THEN 100 + CARD_VALUES(card[2])
  ELSE CARD_VALUES(card[2])

get_card_value(card, led_suit, trump_suit) ==
  LET suit == UpperChar(card[1])
      rank == card[2]
      base_value == CARD_VALUES(rank)
  IN IF ~IsNone(trump_suit) /\ Val(trump_suit) # <<>> /\ <<suit>> = Val(trump_suit)
       THEN 100 + base_value
     ELSE IF suit = led_suit THEN base_value
     ELSE 0

\* ------------------------------------------------- determine_trick_winner
\* trick_cards: a sequence of <<card, player>>.
Valued(pair, led_suit, trump_suit) ==
  [card |-> pair[1], player |-> pair[2],
   value |-> get_card_value(pair[1], led_suit, trump_suit)]

\* Variant: a later card of equal value replaces the winner too.
KeepBestOrEqual(win, cand) == IF cand.value >= win.value THEN cand ELSE win

\* Lines 67-68: a later card replaces the winner only when strictly greater.
KeepBest(win, cand) == IF cand.value > win.value THEN cand ELSE win

\* Lines 65-68.
RECURSIVE WinnerScan(_, _, _, _, _)
WinnerScan(trick_cards, i, led_suit, trump_suit, win) ==
  IF i > Len(trick_cards) THEN win
  ELSE WinnerScan(trick_cards, i + 1, led_suit, trump_suit,
                  KeepBest(win, Valued(trick_cards[i], led_suit, trump_suit)))

TrickRaises(trick_cards) ==
  \E i \in 1..Len(trick_cards) : CardRaises(trick_cards[i][1])

\* Variant: the led suit is read from the last card of the trick.
LedSuitOfLastCard(trick_cards) ==
  UpperChar(trick_cards[Len(trick_cards)][1][1])

\* Line 60.
LedSuit(trick_cards) == UpperChar(trick_cards[1][1][1])

\* [card, player, value] of the winning card; the function returns
\* (card, player).
determine_trick_winner(trick_cards, trump_suit) ==
  WinnerScan(trick_cards, 2, LedSuit(trick_cards), trump_suit,
             Valued(trick_cards[1], LedSuit(trick_cards), trump_suit))

\* --------------------------------------- calculate_tricks_won_by_declarer
\* The loop state of lines 40-42: the trick being collected, the seat the
\* next card is attributed to and the count; raised: an IndexError left the
\* function.
SimStart(first_player_index) ==
  [trick |-> <<>>, leader |-> first_player_index, won |-> 0, raised |-> FALSE]

\* Variant: the opening leader's own partnership is the counted side.
declarer_side_of_leader(first_player_index) ==
  IF first_player_index \in {0, 2} THEN "NS" ELSE "EW"

\* Line 38.
declarer_side(first_player_index) ==
  IF first_player_index \in {0, 2} THEN "EW" ELSE "NS"

\* Variant: the seats of the two sides are exchanged.
CountsForOtherSide(side, winning_player) ==
  \/ side = "NS" /\ winning_player \in {1, 3}
  \/ side = "EW" /\ winning_player \in {0, 2}

\* Lines 50-51: the winner belongs to the counted side.
CountsForSide(side, winning_player) ==
  \/ side = "NS" /\ winning_player \in {0, 2}
  \/ side = "EW" /\ winning_player \in {1, 3}

\* Line 46 and line 53: the seat after a card, the seat after a trick.
NextSeat(current_leader) == (current_leader + 1) % 4

\* Variant: line 53 is missing, the rotation simply goes on.
LeaderKeepsRotating(winning_player, current_leader) == current_leader

LeaderAfterTrick(winning_player, current_leader) == winning_player

\* Lines 45-46: the card is attributed to current_leader, which moves on.
SimAppend(st, card) ==
  [st EXCEPT !.trick = Append(@, <<card, st.leader>>),
             !.leader = NextSeat(st.leader)]

\* Variant: a trick is closed one card early.
TrickCompleteAtThree(current_trick) == Len(current_trick) = 3

\* Line 48.
TrickComplete(current_trick) == Len(current_trick) = 4

\* Lines 50-54 once the winner is known.
AfterTrick(st, side, winning_player) ==
  [st EXCEPT !.won = IF CountsForSide(side, winning_player) THEN @ + 1 ELSE @,
             !.leader = LeaderAfterTrick(winning_player, st.leader),
             !.trick = <<>>]

\* Lines 48-54: a complete trick is evaluated and cleared.
SimCheck(st, trump_suit, side) ==
  IF ~TrickComplete(st.trick) THEN st
  ELSE IF TrickRaises(st.trick) THEN [st EXCEPT !.raised = TRUE]
  ELSE AfterTrick(st, side, determine_trick_winner(st.trick, trump_suit).player)

\* Lines 44-54 over the whole play sequence.
RECURSIVE SimLoop(_, _, _, _, _)
SimLoop(st, play_sequence, i, trump_suit, side) ==
  IF i > Len(play_sequence) \/ st.raised THEN st
  ELSE SimLoop(SimCheck(SimAppend(st, play_sequence[i]), trump_suit, side),
               play_sequence, i + 1, trump_suit, side)

SimResult(st) ==
  [raised |-> st.raised, value |-> IF st.raised THEN None ELSE Some(st.won)]

\* [raised, value]: value is None for an empty play sequence (line 35-36).
calculate_tricks_won_by_declarer(play_sequence, trump_suit, first_player_index) ==
  IF play_sequence = <<>> THEN [raised |-> FALSE, value |-> None]
  ELSE SimResult(SimLoop(SimStart(first_player_index), play_sequence, 1,
                         trump_suit, declarer_side(first_player_index)))

\* ---------------------------------------------------- hand_contains_card
\* re.findall(r'([SHDC])([2-9AKQJT]+)', hand): a suit letter and the longest
\* run of rank characters after it; the card is in the hand when its rank
\* is in a run that follows its suit letter.
hand_contains_card(hand, card) ==
  LET suit == UpperChar(card[1])
      rank == card[2]
  IN \E i \in 1..Len(hand) : \E j \in (i + 1)..Len(hand) :
       /\ hand[i] = suit
       /\ suit \in SuitLetters
       /\ \A k \in (i + 1)..j : hand[k] \in RankChars
       /\ hand[j] = rank

\* -------------------------------------------------- determine_first_player
RECURSIVE FirstHandWith(_, _, _)
FirstHandWith(hands, card, i) ==
  IF i > Len(hands) THEN None
  ELSE IF hand_contains_card(hands[i], card) THEN Some(i - 1)
  ELSE FirstHandWith(hands, card, i + 1)

\* [raised, value]: card[1] raises IndexError on a one-character card.
determine_first_player(first_card, hands) ==
  IF first_card = <<>> \/ hands = <<>> THEN [raised |-> FALSE, value |-> None]
  ELSE IF Len(first_card) < 2 THEN [raised |-> TRUE, value |-> None]
  ELSE [raised |-> FALSE, value |-> FirstHandWith(hands, first_card, 1)]

\* ------------------------------------------------------------ dict model
\* A Python dict is a function on the set of its keys.
EmptyDict == [k \in {} |-> None]
Get(d, k) == IF k \in DOMAIN d THEN d[k] ELSE None
Put(d, k, v) == [x \in (DOMAIN d) \cup {k} |-> IF x = k THEN v ELSE d[x]]

\* Line 149-154.
FreshBoard ==
  [hands |-> None, first_card |-> None, tricks |-> None, trump |-> None]

\* Truthiness of a stored optional string or list.
Truthy(o) == ~IsNone(o) /\ Val(o) # <<>>

\* ------------------------------------- parse_hand (local_ml/load_dataset.py)
\* re.sub(r'^\d+', '', s)
RECURSIVE strip_leading_int(_)
strip_leading_int(s) ==
  IF s # <<>> /\ Head(s) \in DigitChars THEN strip_leading_int(Tail(s)) ELSE s

\* Line 58: a suit letter becomes the current suit.
SuitAfter(current_suit, ch) ==
  IF ch \in SuitLetters THEN Some(ch) ELSE current_suit

\* Line 66: a rank character adds a card of the current suit.
CardsAfter(cards, current_suit, ch) ==
  IF ch \in SuitLetters THEN cards ELSE Append(cards, <<Val(current_suit), ch>>)

\* Variant: the rank test of line 64 is missing.
HandCharRaisesBeforeSuitOnly(current_suit, ch) ==
  ch \notin SuitLetters /\ IsNone(current_suit)

\* The two ValueErrors: line 65, a character after a suit letter that is no
\* rank; line 71, a character before any suit letter.
HandCharRaises(current_suit, ch) ==
  ch \notin SuitLetters /\ (IsNone(current_suit) \/ ch \notin RankChars)

\* Lines 55-71, character by character.
RECURSIVE ParseHandFrom(_, _, _, _)
ParseHandFrom(s, i, current_suit, cards) ==
  IF i > Len(s) THEN [raised |-> FALSE, cards |-> cards]
  ELSE IF HandCharRaises(current_suit, s[i])
    THEN [raised |-> TRUE, cards |-> <<>>]
  ELSE ParseHandFrom(s, i + 1, SuitAfter(current_suit, s[i]),
                     CardsAfter(cards, current_suit, s[i]))

\* Variant: the leading digits are not removed.
parse_hand_keeping_digits(hand_str) ==
  IF Strip(hand_str) = <<>> THEN [raised |-> FALSE, cards |-> <<>>]
  ELSE ParseHandFrom(Upper(Strip(hand_str)), 1, None, <<>>)

\* [raised, cards]: the list of cards, or a ValueError.
parse_hand(hand_str) ==
  IF Strip(hand_str) = <<>> THEN [raised |-> FALSE, cards |-> <<>>]
  ELSE ParseHandFrom(strip_leading_int(Upper(Strip(hand_str))), 1, None, <<>>)

\* ------------------------- encode_row_to_input (local_ml/load_dataset.py)
\* Line 14.
SEAT_NAMES == <<"south", "west", "north", "east">>

\* Lines 27-32.
RIGHT_OF(seat) ==
  CASE seat = "south" -> "west"
    [] seat = "west" -> "north"
    [] seat = "north" -> "east"
    [] seat = "east" -> "south"

\* Variant: the partner is the player to the right.
PartnerToTheRight(seat) == RIGHT_OF(seat)

\* Lines 35-40.
PARTNER(seat) ==
  CASE seat = "south" -> "north"
    [] seat = "north" -> "south"
    [] seat = "east" -> "west"
    [] seat = "west" -> "east"

\* Lines 107-112: the column each seat's hand is read from.
hands_raw(row, seat) ==
  CASE seat = "south" -> row.south_hand
    [] seat = "west" -> row.west_hand
    [] seat = "north" -> row.north_hand
    [] seat = "east" -> row.east_hand

\* str(row['first_card']): an empty cell is read back as NaN.
CellText(cell) == IF IsNone(cell) THEN <<"n", "a", "n">> ELSE Val(cell)

\* Lines 117-121: the first seat of SEAT_NAMES whose parsed hand has the card.
RECURSIVE FirstOwner(_, _, _)
FirstOwner(parsed, first_card, i) ==
  IF i > Len(SEAT_NAMES) THEN None
  ELSE IF \E k \in 1..Len(parsed[SEAT_NAMES[i]].cards) :
            parsed[SEAT_NAMES[i]].cards[k] = first_card
    THEN Some(SEAT_NAMES[i])
  ELSE FirstOwner(parsed, first_card, i + 1)

\* one_hot_cards: the 52 positions set, as the set of cards.
one_hot_cards(cards) == {cards[k] : k \in 1..Len(cards)}

\* Lines 122-137 once the owner is searched: ValueError when no hand has the
\* card, and when int() meets the NaN of an empty tricks cell.
EncodeFor(row, parsed, first_card, owner) ==
  IF IsNone(owner) \/ IsNone(row.tricks) THEN [raised |-> TRUE]
  ELSE [raised |-> FALSE,
        owner |-> Val(owner),
        bidding_player |-> RIGHT_OF(Val(owner)),
        partner |-> PARTNER(RIGHT_OF(Val(owner))),
        hand_bidding |-> one_hot_cards(parsed[RIGHT_OF(Val(owner))].cards),
        hand_partner |-> one_hot_cards(parsed[PARTNER(RIGHT_OF(Val(owner)))].cards),
        first_card |-> first_card,
        y |-> Val(row.tricks)]

\* Lines 113-137 on the parsed hands.
EncodeParsed(row, parsed, first_card) ==
  IF \E i \in 1..Len(SEAT_NAMES) : parsed[SEAT_NAMES[i]].raised
    THEN [raised |-> TRUE]
  ELSE EncodeFor(row, parsed, first_card, FirstOwner(parsed, first_card, 1))

\* [raised] or the seats and hands that make up the input vector and the
\* target.
encode_row_to_input(row) ==
  EncodeParsed(row,
               [seat \in {SEAT_NAMES[i] : i \in 1..4} |->
                  parse_hand(hands_raw(row, seat))],
               Upper(Strip(CellText(row.first_card))))

\* ================================================================ state
VARIABLES
  \* parse_bridge_file (lines 86-90)
  boards, current_board, current_play_sequence, current_bidding, in_board,
  \* where the run is: "reading", "done" (CSV written) or "raised" (an
  \* unhandled exception ended it)
  pc,
  \* the rows written at lines 181-194 (None until they are written)
  csv_rows,
  \* history: board-start tokens processed so far, the ordinal of the board
  \* each element of boards came from, the tokens processed so far, the
  \* data of the last integer mc token the open board received
  nqx, origin, ntok, explicit_mc,
  \* calculate_tricks_won_by_declarer run one card at a time
  sim, sim_trump, sim_first, sim_pc, sim_n, sim_done, sim_prev_winner, sim_result,
  \* get_trump_from_bidding on a bid sequence
  ba_bids, ba_out,
  \* determine_trick_winner on one trick
  tw_trick, tw_trump, tw_out,
  \* a transcript as text: the line, the tokens it was written from, the
  \* accumulator, the position the next search starts at, the phase
  tx_line, tx_tokens, tx_acc, tx_pos, tx_pc,
  \* one board read twice, the hands tag first or after some bids: the two
  \* accumulators, the md data, the bids sent before the late hands tag, the
  \* phase
  ord_first, ord_late, ord_md, ord_early, ord_pc,
  \* parse_hand on a hand string: the string and the result
  ph_str, ph_out,
  \* a record of the parser, the CSV row written from it and what
  \* encode_row_to_input makes of the row
  ld_board, ld_row, ld_out,
  \* download_file: the argument, the loop variable, the position, the value
  \* returned, the outcome of each request, the sleeps taken
  dl_max_retries, dl_attempt, dl_pc, dl_result, dl_log, dl_sleeps

pvars == <<boards, current_board, current_play_sequence, current_bidding,
           in_board, pc, csv_rows, nqx, origin, ntok, explicit_mc>>
svars == <<sim, sim_trump, sim_first, sim_pc, sim_n, sim_done,
           sim_prev_winner, sim_result>>
bvars == <<ba_bids, ba_out>>
tvars == <<tw_trick, tw_trump, tw_out>>
xvars == <<tx_line, tx_tokens, tx_acc, tx_pos, tx_pc>>
ovars == <<ord_first, ord_late, ord_md, ord_early, ord_pc>>
hvars == <<ph_str, ph_out>>
lvars == <<ld_board, ld_row, ld_out>>
dvars == <<dl_max_retries, dl_attempt, dl_pc, dl_result, dl_log, dl_sleeps>>
vars == <<pvars, svars, bvars, tvars, xvars, ovars, hvars, lvars, dvars>>
\* What each specification leaves alone.
not_parser == <<svars, bvars, tvars, xvars, ovars, hvars, lvars, dvars>>
not_sim == <<pvars, bvars, tvars, xvars, ovars, hvars, lvars, dvars>>
not_bids == <<pvars, svars, tvars, xvars, ovars, hvars, lvars, dvars>>
not_trick == <<pvars, svars, bvars, xvars, ovars, hvars, lvars, dvars>>
not_text == <<pvars, svars, bvars, tvars, ovars, hvars, lvars, dvars>>
not_order == <<pvars, svars, bvars, tvars, xvars, hvars, lvars, dvars>>
not_hand == <<pvars, svars, bvars, tvars, xvars, ovars, lvars, dvars>>
not_load == <<pvars, svars, bvars, tvars, xvars, ovars, hvars, dvars>>
not_download == <<pvars, svars, bvars, tvars, xvars, ovars, hvars, lvars>>

\* ------------------------------------------------------------ the inputs
\* md data: a dealer digit and four hands; four hands dealt otherwise; three
\* pieces only.
MdHandsA == <<"3", "S", "A", "H", "9", ",", "H", "2", ",", "H", "A", ",", "D", "3">>
MdHandsB == <<"H", "A", ",", "D", "3", ",", "S", "2", ",", "S", "9">>
MdThree == <<"S", "A", ",", "H", "2", ",", "D", "3">>
MdData == {MdHandsA, MdHandsB, MdThree}

\* pc data: a card, a padded lower-case card, a one-character token.
PcData == {<<"H", "A">>, <<" ", "h", "2">>, <<"H">>}

\* mb data: a suit bid, a pass, a lower-case no-trump bid.
MbData == {<<"1", "H">>, <<"P">>, <<"3", "n">>}

\* mc data: two integers and a non-integer.
McData == {<<"5">>, <<"1", "4">>, <<"x">>}
\* The mc data that are integer literals.
McIntegers == {<<"5">>, <<"1", "4">>}

\* ------------------------------------------------------------ flush_board
\* Variant: the opening lead alone does not make a board eligible.
EligibleByTricksOnly(board) == ~IsNone(Get(board, "tricks"))

\* The emission test of line 111 on the board after lines 95-109.
Eligible(board) ==
  ~IsNone(Get(board, "tricks")) \/ Truthy(Get(board, "first_card"))

\* Lines 108-109.
StoreCalculated(board, calc) ==
  IF calc.raised THEN [raised |-> TRUE, board |-> board]
  ELSE IF IsNone(calc.value) THEN [raised |-> FALSE, board |-> board]
  ELSE [raised |-> FALSE, board |-> Put(board, "tricks", calc.value)]

\* Lines 104-109.
SimulateFrom(board, play_sequence, trump_suit, fp) ==
  IF fp.raised THEN [raised |-> TRUE, board |-> board]
  ELSE IF IsNone(fp.value) THEN [raised |-> FALSE, board |-> board]
  ELSE StoreCalculated(board,
         calculate_tricks_won_by_declarer(play_sequence, trump_suit, Val(fp.value)))

\* Variant: the simulation runs whenever cards were played, overwriting a
\* stored trick count.
WithTricksAlwaysSimulated(board, play_sequence, trump_suit) ==
  IF play_sequence = <<>> THEN [raised |-> FALSE, board |-> board]
  ELSE SimulateFrom(board, play_sequence, trump_suit,
         determine_first_player(play_sequence[1], Val(board["hands"])))

\* Lines 99-109: the board with its simulated tricks, and whether an
\* IndexError interrupted the simulation.
WithTricks(board, play_sequence, trump_suit) ==
  IF ~(IsNone(Get(board, "tricks")) /\ play_sequence # <<>>)
    THEN [raised |-> FALSE, board |-> board]
  ELSE SimulateFrom(board, play_sequence, trump_suit,
         determine_first_player(play_sequence[1], Val(board["hands"])))

\* Line 111-112 on the outcome of lines 99-109.
Decide(r) ==
  [raised |-> r.raised, board |-> r.board,
   emit |-> ~r.raised /\ Eligible(r.board)]

\* Lines 96-109.
Resolve(board, play_sequence, trump_suit) ==
  WithTricks(Put(board, "trump", trump_suit), play_sequence, trump_suit)

\* Lines 94-112: [raised, board, emit]: the board as it stands when the
\* function is left or reaches line 114, and whether line 112 appended it.
Finalize(board, play_sequence, bidding) ==
  IF ~(board # EmptyDict /\ Truthy(Get(board, "hands")))
    THEN [raised |-> FALSE, board |-> board, emit |-> FALSE]
  ELSE Decide(Resolve(board, play_sequence, get_trump_from_bidding(bidding)))

\* Lines 183-194: one CSV row per board.
CsvRow(b) ==
  LET h == IF IsNone(Get(b, "hands")) THEN <<<<>>, <<>>, <<>>, <<>>>>
           ELSE Val(b["hands"])
  IN [south_hand |-> h[1], west_hand |-> h[2], north_hand |-> h[3],
      east_hand |-> h[4], first_card |-> Get(b, "first_card"),
      trump |-> Get(b, "trump"), tricks |-> Get(b, "tricks")]

\* ------------------------------------------- the accumulator as one value
\* The locals of parse_bridge_file (lines 86-90) as one record; raised: an
\* unhandled exception has left the function.
AccStart ==
  [boards |-> <<>>, current_board |-> EmptyDict, current_play_sequence |-> <<>>,
   current_bidding |-> <<>>, in_board |-> FALSE, raised |-> FALSE]

\* Lines 112-117 on the outcome f of lines 94-111.
Flushed(a, f) ==
  IF f.raised THEN [a EXCEPT !.raised = TRUE, !.current_board = f.board]
  ELSE [boards |-> IF f.emit THEN Append(a.boards, f.board) ELSE a.boards,
        current_board |-> EmptyDict, current_play_sequence |-> <<>>,
        current_bidding |-> <<>>, in_board |-> FALSE, raised |-> FALSE]

flush_board(a) ==
  Flushed(a, Finalize(a.current_board, a.current_play_sequence,
                      a.current_bidding))

\* Lines 149-157, reached only when flush_board() returned.
OpenBoard(a) ==
  IF a.raised THEN a
  ELSE [a EXCEPT !.current_board = FreshBoard, !.in_board = TRUE,
                 !.current_play_sequence = <<>>, !.current_bidding = <<>>]

\* Lines 147-157.
OnQx(a) == OpenBoard(flush_board(a))

\* Variant: the hands are stored however many pieces the data splits into.
OnMdAnyCount(a, data) ==
  IF a.in_board
    THEN [a EXCEPT !.current_board = Put(@, "hands", Some(Split(data)))]
  ELSE a

\* Lines 159-162.
OnMd(a, data) ==
  IF a.in_board /\ Len(Split(data)) = 4
    THEN [a EXCEPT !.current_board = Put(@, "hands", Some(Split(data)))]
  ELSE a

\* Variant: a bid that arrives before the hands are stored is lost.
OnMbAfterHands(a, data) ==
  IF a.in_board /\ ~IsNone(Get(a.current_board, "hands"))
    THEN [a EXCEPT !.current_bidding = Append(@, Strip(data))]
  ELSE a

\* Lines 164-165.
OnMb(a, data) ==
  IF a.in_board THEN [a EXCEPT !.current_bidding = Append(@, Strip(data))]
  ELSE a

\* Variant: every play token overwrites the recorded lead.
RecordLeadAlways(board, card) == Put(board, "first_card", Some(card))

\* Lines 170-171.
RecordLead(board, card) ==
  IF IsNone(Get(board, "first_card")) THEN Put(board, "first_card", Some(card))
  ELSE board

\* Lines 167-171.
OnPc(a, data) ==
  IF a.in_board
    THEN [a EXCEPT !.current_play_sequence = Append(@, Strip(data)),
                   !.current_board = RecordLead(@, Strip(data))]
  ELSE a

\* Lines 173-177.
OnMc(a, data) ==
  IF a.in_board /\ ~IsNone(ParseInt(Strip(data)))
    THEN [a EXCEPT !.current_board = Put(@, "tricks", ParseInt(Strip(data)))]
  ELSE a

\* Lines 147-177: the branch the tag selects; no branch, no effect.
Dispatch(a, tag, data) ==
  CASE tag = <<"q", "x">> -> OnQx(a)
    [] tag = <<"m", "d">> -> OnMd(a, data)
    [] tag = <<"m", "b">> -> OnMb(a, data)
    [] tag = <<"p", "c">> -> OnPc(a, data)
    [] tag = <<"m", "c">> -> OnMc(a, data)
    [] OTHER -> a

\* ------------------------------------------------------------ tag_pattern
\* The tag words of the five alternatives of line 7.
TagWords ==
  {<<"q", "x">>, <<"m", "d">>, <<"m", "b">>, <<"p", "c">>, <<"m", "c">>}

\* The position of the first '|' at or after i, 0 when there is none.
RECURSIVE NextBar(_, _)
NextBar(line, i) ==
  IF i > Len(line) THEN 0
  ELSE IF line[i] = "|" THEN i
  ELSE NextBar(line, i + 1)

\* Where a match of tag_pattern that starts at i ends, 0 when the pattern
\* does not match at i: a tag word, '|', one or more characters other than
\* '|', then '|'.
MatchEndAt(line, i) ==
  IF /\ i + 4 <= Len(line)
     /\ SubSeq(line, i, i + 1) \in TagWords
     /\ line[i + 2] = "|"
     /\ line[i + 3] # "|"
    THEN NextBar(line, i + 4)
  ELSE 0

\* finditer: the start of the first match at or after i, 0 when there is none.
RECURSIVE NextMatch(_, _)
NextMatch(line, i) ==
  IF i > Len(line) THEN 0
  ELSE IF MatchEndAt(line, i) # 0 THEN i
  ELSE NextMatch(line, i + 1)

\* Lines 140-145: the matched text is split at '|'.
TokenTag(token) == SplitBar(token)[1]
TokenData(token) ==
  IF Len(SplitBar(token)) > 1 THEN SplitBar(token)[2] ELSE <<>>

\* Lines 140-177 for the match that starts at m.
DispatchMatch(a, line, m) ==
  Dispatch(a, TokenTag(SubSeq(line, m, MatchEndAt(line, m))),
           TokenData(SubSeq(line, m, MatchEndAt(line, m))))

\* Lines 139-177: the matches of one line from the one starting at m on (0:
\* no match is left); an exception ends the loop.
RECURSIVE ScanFrom(_, _, _)
ScanFrom(a, line, m) ==
  IF m = 0 \/ a.raised THEN a
  ELSE ScanFrom(DispatchMatch(a, line, m), line,
                NextMatch(line, MatchEndAt(line, m) + 1))

\* Lines 179: the last flush_board(), unless an exception ended the run.
AtEnd(a) == IF a.raised THEN a ELSE flush_board(a)

\* Lines 137-179 on a one-line file: the accumulator when the CSV is about
\* to be written.
parse_line(line) == AtEnd(ScanFrom(AccStart, line, NextMatch(line, 1)))

\* --------------------------------------------------------------- actions
\* Variant: the bid list survives the board boundary.
QxKeepingBids(f) ==
  IF f.raised
    THEN /\ pc' = "raised"
         /\ current_board' = f.board
         /\ UNCHANGED <<boards, current_play_sequence, current_bidding,
                        in_board, nqx, origin, explicit_mc>>
    ELSE /\ boards' = IF f.emit THEN Append(boards, f.board) ELSE boards
         /\ origin' = IF f.emit THEN Append(origin, nqx) ELSE origin
         /\ current_board' = FreshBoard
         /\ in_board' = TRUE
         /\ current_play_sequence' = <<>>
         /\ UNCHANGED current_bidding
         /\ nqx' = nqx + 1
         /\ explicit_mc' = None
         /\ pc' = "reading"

\* qx (lines 147-157): flush_board() with outcome f, then a fresh board.
QxWith(f) ==
  IF f.raised
    THEN /\ pc' = "raised"
         /\ current_board' = f.board
         /\ UNCHANGED <<boards, current_play_sequence, current_bidding,
                        in_board, nqx, origin, explicit_mc>>
    ELSE /\ boards' = IF f.emit THEN Append(boards, f.board) ELSE boards
         /\ origin' = IF f.emit THEN Append(origin, nqx) ELSE origin
         /\ current_board' = FreshBoard
         /\ in_board' = TRUE
         /\ current_play_sequence' = <<>>
         /\ current_bidding' = <<>>
         /\ nqx' = nqx + 1
         /\ explicit_mc' = None
         /\ pc' = "reading"

Qx ==
  /\ pc = "reading"
  /\ nqx < MaxBoards
  /\ ntok < MaxTokens
  /\ QxWith(Finalize(current_board, current_play_sequence, current_bidding))
  /\ ntok' = ntok + 1
  /\ UNCHANGED <<csv_rows, not_parser>>

\* Variant: md is handled whether or not a board is open.
MdWhileIdle ==
  /\ pc = "reading"
  /\ \E data \in MdData :
       LET hands == Split(data) IN
       current_board' =
         IF Len(hands) = 4
           THEN Put(current_board, "hands", Some(hands))
         ELSE current_board
  /\ ntok < MaxTokens
  /\ ntok' = ntok + 1
  /\ UNCHANGED <<boards, current_play_sequence, current_bidding, in_board,
                 pc, csv_rows, nqx, origin, explicit_mc, not_parser>>

\* md (lines 159-162).
Md ==
  /\ pc = "reading"
  /\ \E data \in MdData :
       LET hands == Split(data) IN
       current_board' =
         IF in_board /\ Len(hands) = 4
           THEN Put(current_board, "hands", Some(hands))
         ELSE current_board
  /\ ntok < MaxTokens
  /\ ntok' = ntok + 1
  /\ UNCHANGED <<boards, current_play_sequence, current_bidding, in_board,
                 pc, csv_rows, nqx, origin, explicit_mc, not_parser>>

\* mb (lines 164-165).
Mb ==
  /\ pc = "reading"
  /\ Len(current_bidding) < MaxBids
  /\ \E data \in MbData :
       current_bidding' =
         IF in_board THEN Append(current_bidding, Strip(data))
         ELSE current_bidding
  /\ ntok < MaxTokens
  /\ ntok' = ntok + 1
  /\ UNCHANGED <<boards, current_board, current_play_sequence, in_board,
                 pc, csv_rows, nqx, origin, explicit_mc, not_parser>>

\* pc (lines 167-171).
Pc ==
  /\ pc = "reading"
  /\ Len(current_play_sequence) < MaxPlay
  /\ \E data \in PcData :
       LET card == Strip(data) IN
       IF in_board
         THEN /\ current_play_sequence' = Append(current_play_sequence, card)
              /\ current_board' = RecordLead(current_board, card)
       ELSE UNCHANGED <<current_play_sequence, current_board>>
  /\ ntok < MaxTokens
  /\ ntok' = ntok + 1
  /\ UNCHANGED <<boards, current_bidding, in_board, pc, csv_rows, nqx, origin,
                 explicit_mc, not_parser>>

\* mc (lines 173-177).
Mc ==
  /\ pc = "reading"
  /\ \E data \in McData :
       /\ current_board' =
            IF in_board /\ ~IsNone(ParseInt(Strip(data)))
              THEN Put(current_board, "tricks", ParseInt(Strip(data)))
            ELSE current_board
       /\ explicit_mc' =
            IF in_board /\ data \in McIntegers THEN Some(data) ELSE explicit_mc
  /\ ntok < MaxTokens
  /\ ntok' = ntok + 1
  /\ UNCHANGED <<boards, current_play_sequence, current_bidding, in_board,
                 pc, csv_rows, nqx, origin, not_parser>>

\* Lines 181-194.
WriteCsv(out) == Some([i \in 1..Len(out) |-> CsvRow(out[i])])

\* End of input (lines 179-194): the last flush_board() with outcome f, then
\* the CSV.
EndWith(f) ==
  IF f.raised
    THEN /\ pc' = "raised"
         /\ current_board' = f.board
         /\ UNCHANGED <<boards, current_play_sequence, current_bidding,
                        in_board, origin, csv_rows, explicit_mc>>
    ELSE /\ boards' = IF f.emit THEN Append(boards, f.board) ELSE boards
         /\ origin' = IF f.emit THEN Append(origin, nqx) ELSE origin
         /\ current_board' = EmptyDict
         /\ current_play_sequence' = <<>>
         /\ current_bidding' = <<>>
         /\ in_board' = FALSE
         /\ csv_rows' = WriteCsv(boards')
         /\ explicit_mc' = None
         /\ pc' = "done"

EndOfInput ==
  /\ pc = "reading"
  /\ EndWith(Finalize(current_board, current_play_sequence, current_bidding))
  /\ UNCHANGED <<nqx, ntok, not_parser>>

ParserInit ==
  /\ boards = <<>>
  /\ current_board = EmptyDict
  /\ current_play_sequence = <<>>
  /\ current_bidding = <<>>
  /\ in_board = FALSE
  /\ pc = "reading"
  /\ csv_rows = None
  /\ nqx = 0
  /\ origin = <<>>
  /\ ntok = 0
  /\ explicit_mc = None

SimIdle ==
  /\ sim = SimStart(0)
  /\ sim_trump = None
  /\ sim_first = 0
  /\ sim_pc = "idle"
  /\ sim_n = 0
  /\ sim_done = 0
  /\ sim_prev_winner = None
  /\ sim_result = None

BidIdle == ba_bids = <<>> /\ ba_out = None

TrickIdle == tw_trick = <<>> /\ tw_trump = None /\ tw_out = None

TextIdle ==
  /\ tx_line = <<>>
  /\ tx_tokens = <<>>
  /\ tx_acc = AccStart
  /\ tx_pos = 1
  /\ tx_pc = "idle"

OrderIdle ==
  /\ ord_first = AccStart
  /\ ord_late = AccStart
  /\ ord_md = <<>>
  /\ ord_early = 0
  /\ ord_pc = "idle"

HandIdle == ph_str = <<>> /\ ph_out = None

LoadIdle == ld_board = EmptyDict /\ ld_row = None /\ ld_out = None

DownloadIdle ==
  /\ dl_max_retries = 0
  /\ dl_attempt = 0
  /\ dl_pc = "idle"
  /\ dl_result = None
  /\ dl_log = <<>>
  /\ dl_sleeps = 0

\* The other specifications at rest.
OthersIdle == TextIdle /\ OrderIdle /\ HandIdle /\ LoadIdle /\ DownloadIdle

Init == ParserInit /\ SimIdle /\ BidIdle /\ TrickIdle /\ OthersIdle

Next == Qx \/ Md \/ Mb \/ Pc \/ Mc \/ EndOfInput

Spec == Init /\ [][Next]_vars

\* ================================================= the trick simulation
\* calculate_tricks_won_by_declarer read one loop iteration at a time: the
\* cards of the play sequence are drawn as the loop reaches them.
SimCards == {<<"H", "A">>, <<"H", "2">>, <<"S", "A">>, <<"D", "3">>}
SimTrumps == {None, Some(<<"S">>), Some(<<"N", "T">>)}
Seats == 0..3

SimInit ==
  /\ sim_trump \in SimTrumps
  /\ sim_first \in Seats
  /\ sim = SimStart(sim_first)
  /\ sim_pc = "append"
  /\ sim_n = 0
  /\ sim_done = 0
  /\ sim_prev_winner = None
  /\ sim_result = None

\* Lines 44-46: the next card of the sequence.
SimCard ==
  /\ sim_pc = "append"
  /\ sim_n < MaxSimCards
  /\ \E card \in SimCards : sim' = SimAppend(sim, card)
  /\ sim_n' = sim_n + 1
  /\ sim_pc' = "check"
  /\ UNCHANGED <<sim_trump, sim_first, sim_done, sim_prev_winner, sim_result,
                 not_sim>>

\* Lines 48-54: the test of the trick's length and, on four cards, its
\* evaluation; sim_done counts the evaluations, sim_prev_winner keeps the
\* seat determine_trick_winner returned.
SimTrick ==
  /\ sim_pc = "check"
  /\ sim' = SimCheck(sim, sim_trump, declarer_side(sim_first))
  /\ IF Len(sim'.trick) = 0
       THEN /\ sim_done' = sim_done + 1
            /\ sim_prev_winner' =
                 Some(determine_trick_winner(sim.trick, sim_trump).player)
       ELSE UNCHANGED <<sim_done, sim_prev_winner>>
  /\ sim_pc' = "append"
  /\ UNCHANGED <<sim_trump, sim_first, sim_n, sim_result, not_sim>>

\* Lines 35-36 and 56: the value returned once the sequence is exhausted.
SimReturn ==
  /\ sim_pc = "append"
  /\ sim_result' = IF sim_n = 0 THEN None ELSE Some(sim.won)
  /\ sim_pc' = "returned"
  /\ UNCHANGED <<sim, sim_trump, sim_first, sim_n, sim_done, sim_prev_winner,
                 not_sim>>

ParserIdle ==
  /\ boards = <<>>
  /\ current_board = EmptyDict
  /\ current_play_sequence = <<>>
  /\ current_bidding = <<>>
  /\ in_board = FALSE
  /\ pc = "idle"
  /\ csv_rows = None
  /\ nqx = 0
  /\ origin = <<>>
  /\ ntok = 0
  /\ explicit_mc = None

SimSpecInit == SimInit /\ ParserIdle /\ BidIdle /\ TrickIdle /\ OthersIdle

SimNext == SimCard \/ SimTrick \/ SimReturn

SpecSim == SimSpecInit /\ [][SimNext]_vars

\* ================================================= the bidding analyzer
\* get_trump_from_bidding applied to every bid sequence of the bound.
BaData == {<<"1", "C">>, <<"1", "D">>, <<"2", "H">>, <<" ", "4", "s">>,
           <<"3", "N">>, <<"P">>, <<"D">>}

\* A bid arrives and is stored trimmed (line 165).
BaBid ==
  /\ IsNone(ba_out)
  /\ Len(ba_bids) < MaxBidLen
  /\ \E data \in BaData : ba_bids' = Append(ba_bids, Strip(data))
  /\ UNCHANGED <<ba_out, not_bids>>

\* A board with four hands stored and nothing else.
BaBoard == Put(FreshBoard, "hands", Some(Split(MdHandsA)))

\* Lines 94-97: the trump flush_board stores on the board.
BaAnalyze ==
  /\ IsNone(ba_out)
  /\ ba_out' = Some(Get(Finalize(BaBoard, <<>>, ba_bids).board, "trump"))
  /\ UNCHANGED <<ba_bids, not_bids>>

BidSpecInit == BidIdle /\ ParserIdle /\ SimIdle /\ TrickIdle /\ OthersIdle

BidNext == BaBid \/ BaAnalyze

SpecBids == BidSpecInit /\ [][BidNext]_vars

\* ==================================================== one trick's winner
\* determine_trick_winner applied to every trick of four cards of TwCards,
\* played clockwise from a leader.
TwCards == {<<"H", "9">>, <<"H", "2">>, <<"H", "A">>, <<"D", "3">>,
            <<"C", "5">>, <<"C", "9">>, <<"S", "A">>, <<"C", "2">>}
TwTrumps == {None, Some(<<"S">>), Some(<<"H">>), Some(<<"N", "T">>)}
TwLeaders == {0, 3}

TwInit ==
  /\ tw_trump \in TwTrumps
  /\ tw_trick = <<>>
  /\ tw_out = None

\* Lines 45-46: a card joins the trick, attributed to the next seat.
TwPlay ==
  /\ Len(tw_trick) < 4
  /\ \E card \in TwCards : \E leader \in TwLeaders :
       tw_trick' = Append(tw_trick,
                     <<card, IF tw_trick = <<>> THEN leader
                             ELSE NextSeat(tw_trick[Len(tw_trick)][2])>>)
  /\ UNCHANGED <<tw_trump, tw_out, not_trick>>

\* Line 49.
TwDecide ==
  /\ Len(tw_trick) = 4
  /\ IsNone(tw_out)
  /\ tw_out' = Some(determine_trick_winner(tw_trick, tw_trump))
  /\ UNCHANGED <<tw_trick, tw_trump, not_trick>>

TrickSpecInit == TwInit /\ ParserIdle /\ SimIdle /\ BidIdle /\ OthersIdle

TrickNext == TwPlay \/ TwDecide

SpecTrick == TrickSpecInit /\ [][TrickNext]_vars

\* ================================================== a transcript as text
\* parse_bridge_file on one line of text: the line is written token by token,
\* then read match by match (lines 137-179).
\* Tokens written to the line in the text specification.
MaxTextTokens == 4

\* qx|1|: a board start
TxQx == <<"q", "x", "|", "1", "|">>
\* md|HA,D3,S2,S9|: four hands
TxMd == <<"m", "d", "|", "H", "A", ",", "D", "3", ",", "S", "2", ",", "S", "9", "|">>
\* md|XQ2,H2,HA,D3|: four hands, the first with a letter that is no suit
TxMdBad == <<"m", "d", "|", "X", "Q", "2", ",", "H", "2", ",", "H", "A", ",", "D", "3", "|">>
\* pc|HA|: a played card
TxPc == <<"p", "c", "|", "H", "A", "|">>
\* mc|5|: a trick count
TxMc == <<"m", "c", "|", "5", "|">>
\* xpc|HA|: a three-letter tag that ends in pc
TxXpc == <<"x", "p", "c", "|", "H", "A", "|">>
\* PC|HA|: the play tag in upper case
TxUpperPc == <<"P", "C", "|", "H", "A", "|">>
\* sv|n|: a tag of two letters the parser does not know
TxSv == <<"s", "v", "|", "n", "|">>
\* nt|a pc|: a comment whose text ends in the letters pc
TxNt == <<"n", "t", "|", "a", " ", "p", "c", "|">>
\* md|SA,H2,D3|: three hands only
TxMdThree == <<"m", "d", "|", "S", "A", ",", "H", "2", ",", "D", "3", "|">>
TextTokens ==
  {TxQx, TxMd, TxMdBad, TxMdThree, TxPc, TxMc, TxXpc, TxUpperPc, TxSv, TxNt}

TextInit ==
  /\ tx_line = <<>>
  /\ tx_tokens = <<>>
  /\ tx_acc = AccStart
  /\ tx_pos = 1
  /\ tx_pc = "writing"

\* The input file grows by one token.
TxWrite ==
  /\ tx_pc = "writing"
  /\ Len(tx_tokens) < MaxTextTokens
  /\ \E tok \in TextTokens :
       /\ tx_tokens' = Append(tx_tokens, tok)
       /\ tx_line' = tx_line \o tok
  /\ UNCHANGED <<tx_acc, tx_pos, tx_pc, not_text>>

\* Lines 137-138: the file is opened and its line read.
TxOpen ==
  /\ tx_pc = "writing"
  /\ tx_pc' = "scanning"
  /\ UNCHANGED <<tx_line, tx_tokens, tx_acc, tx_pos, not_text>>

\* Lines 139-177 for the match that starts at m.
TxTokenAt(m) ==
  /\ m # 0
  /\ tx_acc' = DispatchMatch(tx_acc, tx_line, m)
  /\ tx_pos' = MatchEndAt(tx_line, m) + 1
  /\ tx_pc' = IF tx_acc'.raised THEN "raised" ELSE "scanning"

TxToken ==
  /\ tx_pc = "scanning"
  /\ TxTokenAt(NextMatch(tx_line, tx_pos))
  /\ UNCHANGED <<tx_line, tx_tokens, not_text>>

\* Line 179 once finditer is exhausted.
TxEnd ==
  /\ tx_pc = "scanning"
  /\ NextMatch(tx_line, tx_pos) = 0
  /\ tx_acc' = flush_board(tx_acc)
  /\ tx_pc' = IF tx_acc'.raised THEN "raised" ELSE "done"
  /\ UNCHANGED <<tx_line, tx_tokens, tx_pos, not_text>>

TextSpecInit ==
  /\ TextInit /\ ParserIdle /\ SimIdle /\ BidIdle /\ TrickIdle
  /\ OrderIdle /\ HandIdle /\ LoadIdle /\ DownloadIdle

TextNext == TxWrite \/ TxOpen \/ TxToken \/ TxEnd

SpecText == TextSpecInit /\ [][TextNext]_vars

\* ================================ one board, the hands tag first or late
\* The same board is read twice: once with the hands tag right after the
\* board start, once with the hands tag after some of the bids.
\* Bid tokens and play tokens of the board.
MaxOrdBids == 3
MaxOrdPlay == 4
OrdMdData == {MdHandsA, MdHandsB}
OrdPcData == {<<"H", "A">>, <<" ", "h", "2">>}

OrderInit ==
  /\ ord_md \in OrdMdData
  /\ ord_first = OnMd(OnQx(AccStart), ord_md)
  /\ ord_late = OnQx(AccStart)
  /\ ord_early = 0
  /\ ord_pc = "bids"

\* An mb token, read by both.
OrdBid ==
  /\ ord_pc \in {"bids", "hands"}
  /\ Len(ord_first.current_bidding) < MaxOrdBids
  /\ \E data \in MbData :
       /\ ord_first' = OnMb(ord_first, data)
       /\ ord_late' = OnMb(ord_late, data)
  /\ ord_early' = IF ord_pc = "bids" THEN ord_early + 1 ELSE ord_early
  /\ UNCHANGED <<ord_md, ord_pc, not_order>>

\* The late md token.
OrdHands ==
  /\ ord_pc = "bids"
  /\ ord_late' = OnMd(ord_late, ord_md)
  /\ ord_pc' = "hands"
  /\ UNCHANGED <<ord_first, ord_md, ord_early, not_order>>

\* A pc token, read by both.
OrdPlay ==
  /\ ord_pc = "hands"
  /\ Len(ord_first.current_play_sequence) < MaxOrdPlay
  /\ \E data \in OrdPcData :
       /\ ord_first' = OnPc(ord_first, data)
       /\ ord_late' = OnPc(ord_late, data)
  /\ UNCHANGED <<ord_md, ord_early, ord_pc, not_order>>

\* The end of both inputs (line 179).
OrdEnd ==
  /\ ord_pc = "hands"
  /\ ord_first' = AtEnd(ord_first)
  /\ ord_late' = AtEnd(ord_late)
  /\ ord_pc' = "done"
  /\ UNCHANGED <<ord_md, ord_early, not_order>>

OrderSpecInit ==
  /\ OrderInit /\ ParserIdle /\ SimIdle /\ BidIdle /\ TrickIdle
  /\ TextIdle /\ HandIdle /\ LoadIdle /\ DownloadIdle

OrderNext == OrdBid \/ OrdHands \/ OrdPlay \/ OrdEnd

SpecOrder == OrderSpecInit /\ [][OrderNext]_vars

\* ============================================== parse_hand on hand strings
\* Characters of a hand string handed to parse_hand.
MaxHandLen == 5
\* A digit that is no rank, a digit that is a rank, two suit letters, a
\* rank, a letter that is neither suit nor rank, a lower-case suit letter,
\* a blank.
HandChars == {"1", "3", "S", "H", "A", "X", "h", " "}

HandInit == ph_str = <<>> /\ ph_out = None

\* The argument grows by one character.
PhChar ==
  /\ IsNone(ph_out)
  /\ Len(ph_str) < MaxHandLen
  /\ \E c \in HandChars : ph_str' = Append(ph_str, c)
  /\ UNCHANGED <<ph_out, not_hand>>

\* The call.
PhParse ==
  /\ IsNone(ph_out)
  /\ ph_out' = Some(parse_hand(ph_str))
  /\ UNCHANGED <<ph_str, not_hand>>

HandSpecInit ==
  /\ HandInit /\ ParserIdle /\ SimIdle /\ BidIdle /\ TrickIdle
  /\ TextIdle /\ OrderIdle /\ LoadIdle /\ DownloadIdle

HandNext == PhChar \/ PhParse

SpecHand == HandSpecInit /\ [][HandNext]_vars

\* ================================= a record written and read back as a row
\* Hand strings: one with a dealer digit, a single card, one in lower case,
\* one with a character that is no rank.
LdHands == {<<"3", "S", "A", "H", "9">>, <<"H", "2">>, <<"h", "a">>, <<"S", "X">>}
\* The first card of a record: none, two cards as the parser stores them.
LdFirstCards == {None, Some(<<"H", "A">>), Some(<<"h", "2">>), Some(<<"D", "3">>)}
LdTricks == {None, Some(1)}

\* A record as parse_bridge_file appends it (line 112).
LoadInit ==
  /\ ld_board \in {[hands |-> Some(h), first_card |-> c, trump |-> None,
                    tricks |-> t] :
                     h \in [1..4 -> LdHands], c \in LdFirstCards, t \in LdTricks}
  /\ ld_row = None
  /\ ld_out = None

\* preprocess/main.py lines 184-194: the record becomes a CSV row.
LdWrite ==
  /\ IsNone(ld_row)
  /\ ld_row' = Some(CsvRow(ld_board))
  /\ UNCHANGED <<ld_board, ld_out, not_load>>

\* load_dataset.py line 150: the row is encoded.
LdEncode ==
  /\ ~IsNone(ld_row)
  /\ IsNone(ld_out)
  /\ ld_out' = Some(encode_row_to_input(Val(ld_row)))
  /\ UNCHANGED <<ld_board, ld_row, not_load>>

LoadSpecInit ==
  /\ LoadInit /\ ParserIdle /\ SimIdle /\ BidIdle /\ TrickIdle
  /\ TextIdle /\ OrderIdle /\ HandIdle /\ DownloadIdle

LoadNext == LdWrite \/ LdEncode

SpecLoad == LoadSpecInit /\ [][LoadNext]_vars

\* ============================================ download_file (scraping)
\* The largest max_retries a call is made with.
MaxRetries == 3

\* What a request can end in: an exception of requests (get, raise_for_status
\* or the read of the body), or a response text: empty, blank, an error page,
\* a transcript, a transcript with the letters of error in a name.
RequestExceptions == {"Timeout", "ConnectionError", "HTTPError"}
ResponseTexts ==
  {<<>>, <<" ">>, <<"E", "r", "r", "o", "r">>, <<"q", "x", "|", "1", "|">>,
   <<"p", "n", "|", "T", "e", "r", "r", "o", "r", "|">>}

\* str.lower() on the letters of the response texts.
LowerChar(c) ==
  CASE c = "E" -> "e"
    [] c = "T" -> "t"
    [] OTHER -> c
Lower(s) == [i \in 1..Len(s) |-> LowerChar(s[i])]

\* sub in s
Contains(s, sub) ==
  \E i \in 1..(Len(s) - Len(sub) + 1) : SubSeq(s, i, i + Len(sub) - 1) = sub

\* Line 99.
ContentAccepted(content) ==
  /\ Len(Strip(content)) > 0
  /\ ~Contains(Lower(content), <<"e", "r", "r", "o", "r">>)

\* Variant: the sleep is taken after the last attempt too.
RetryAfterEveryFailure(attempt, max_retries) == attempt < max_retries

\* Line 107.
ShouldRetry(attempt, max_retries) == attempt < max_retries - 1

DownloadInit ==
  /\ dl_max_retries \in 0..MaxRetries
  /\ dl_attempt = 0
  /\ dl_pc = "loop"
  /\ dl_result = None
  /\ dl_log = <<>>
  /\ dl_sleeps = 0

\* Line 83: the next value of range(max_retries), or the end of the loop and
\* of the function.
DlLoop ==
  /\ dl_pc = "loop"
  /\ dl_pc' = IF dl_attempt < dl_max_retries THEN "request" ELSE "returned"
  /\ UNCHANGED <<dl_max_retries, dl_attempt, dl_result, dl_log, dl_sleeps,
                 not_download>>

\* Lines 87-103: the request is answered.
DlResponse ==
  /\ dl_pc = "request"
  /\ \E content \in ResponseTexts :
       /\ dl_log' = Append(dl_log, [raised |-> FALSE, content |-> content])
       /\ dl_result' = IF ContentAccepted(content) THEN Some(content) ELSE None
  /\ dl_pc' = "returned"
  /\ UNCHANGED <<dl_max_retries, dl_attempt, dl_sleeps, not_download>>

\* Lines 105-112: the request raises a RequestException.
DlException ==
  /\ dl_pc = "request"
  /\ \E e \in RequestExceptions :
       dl_log' = Append(dl_log, [raised |-> TRUE, error |-> e])
  /\ dl_pc' = IF ShouldRetry(dl_attempt, dl_max_retries) THEN "sleeping"
              ELSE "returned"
  /\ UNCHANGED <<dl_max_retries, dl_attempt, dl_result, dl_sleeps,
                 not_download>>

\* Line 109: time.sleep returns and the loop goes on.
DlSleep ==
  /\ dl_pc = "sleeping"
  /\ dl_sleeps' = dl_sleeps + 1
  /\ dl_attempt' = dl_attempt + 1
  /\ dl_pc' = "loop"
  /\ UNCHANGED <<dl_max_retries, dl_result, dl_log, not_download>>

DownloadSpecInit ==
  /\ DownloadInit /\ ParserIdle /\ SimIdle /\ BidIdle /\ TrickIdle
  /\ TextIdle /\ OrderIdle /\ HandIdle /\ LoadIdle

DownloadNext == DlLoop \/ DlResponse \/ DlException \/ DlSleep

\* A request with timeout=60 and a sleep of SLEEP_TIME seconds both come to
\* an end: every step that can be taken is taken.
SpecDownload == DownloadSpecInit /\ [][DownloadNext]_vars /\ WF_vars(DownloadNext)

\* ============================================================ properties
\* A step that ran flush_board to its end: a qx token or the end of input.
FlushDone == pc = "reading" /\ (nqx' = nqx + 1 \/ pc' = "done")
\* The step appended a record, which is the last element of boards'.
Emitted == Len(boards') = Len(boards) + 1
NewRecord == boards'[Len(boards')]
\* The open board before the step.
HandsStored ==
  /\ ~IsNone(Get(current_board, "hands"))
  /\ Len(Val(current_board["hands"])) = 4
LeadRecorded == ~IsNone(Get(current_board, "first_card"))
ExplicitStored == ~IsNone(explicit_mc)
\* The integer an mc literal of McIntegers denotes.
McValue(data) == IF data = <<"5">> THEN 5 ELSE 14

\* C1: every board opened by a qx token is finalized exactly once, at the next
\* qx token or at end of input: a board yields at most one record, records
\* keep the order of their qx tokens, and once the input is exhausted no board
\* is left open: the run has ended with the last board flushed and the
\* records written.
C1_EveryBoardFinalized ==
  /\ Len(origin) = Len(boards)
  /\ \A i \in 1..Len(origin) : \A j \in 1..Len(origin) :
       i < j => origin[i] < origin[j]
  /\ \A i \in 1..Len(origin) : origin[i] \in 1..nqx
  /\ pc # "reading" =>
       /\ pc = "done"
       /\ in_board = FALSE
       /\ current_board = EmptyDict
       /\ ~IsNone(csv_rows)
       /\ Len(Val(csv_rows)) = Len(boards)

\* C2: a finalized board is emitted if and only if its four hands are stored
\* and it has an explicit trick count or a recorded opening lead (a simulated
\* count exists only where a lead was recorded); an emitted record has hands
\* and a trick count or an opening lead, whatever its trump.
C2_EmittedIffUseful ==
  [][FlushDone =>
       /\ Emitted <=> (HandsStored /\ (ExplicitStored \/ LeadRecorded))
       /\ Emitted =>
            /\ ~IsNone(NewRecord["hands"])
            /\ ~IsNone(NewRecord["tricks"]) \/ ~IsNone(NewRecord["first_card"])
       /\ ~Emitted => boards' = boards]_vars

\* A board with four hands, an explicit trick count, no bid and no card was
\* emitted after an earlier board was dropped.
C2_Witness ==
  /\ pc = "done"
  /\ origin = <<2>>
  /\ boards[1]["trump"] = None
  /\ boards[1]["first_card"] = None
  /\ boards[1]["tricks"] = Some(5)

\* C3: a board that received an integer mc token is emitted with the value of
\* the last such token as its tricks, whatever cards it received and in
\* whatever order; the stored value is that value at every moment.
C3_ExplicitTricksWin ==
  [][/\ (pc' = "reading" /\ ExplicitStored') =>
          Get(current_board', "tricks") = Some(McValue(Val(explicit_mc')))
     /\ (FlushDone /\ ExplicitStored /\ Emitted) =>
          NewRecord["tricks"] = Some(McValue(Val(explicit_mc)))]_vars

\* A record carries the explicit count 14 although cards were played.
C3_Witness ==
  \E i \in 1..Len(boards) :
    /\ boards[i]["tricks"] = Some(14)
    /\ ~IsNone(boards[i]["first_card"])

\* C4: the step that processes a qx token leaves a fresh open board: hands,
\* lead, tricks and trump unresolved, no bid, no card, and the records of the
\* earlier boards are kept as they were.
C4_FreshBoardAfterQx ==
  [][(nqx' = nqx + 1) =>
       /\ in_board'
       /\ current_board' = FreshBoard
       /\ current_bidding' = <<>>
       /\ current_play_sequence' = <<>>
       /\ explicit_mc' = None
       /\ SubSeq(boards', 1, Len(boards)) = boards]_vars

\* The second board is fresh right after a first board with bids, cards and
\* hands was emitted.
C4_Witness ==
  /\ nqx = 2
  /\ in_board
  /\ current_board = FreshBoard
  /\ current_bidding = <<>>
  /\ Len(boards) = 1
  /\ ~IsNone(boards[1]["trump"])
  /\ ~IsNone(boards[1]["first_card"])

\* C5: the tricks value of every emitted record is unresolved or an integer
\* in 0..13.
C5_TricksInRange ==
  \A i \in 1..Len(boards) :
    \/ IsNone(boards[i]["tricks"])
    \/ Val(boards[i]["tricks"]) \in 0..13

\* ---- C10
\* The dealer digit of the hands tag as a seat index (1 -> 0 ... 4 -> 3).
ClaimDealerKnown(hands) ==
  hands[1] # <<>> /\ hands[1][1] \in {"1", "2", "3", "4"}
ClaimDealerSeat(hands) == DigitVal(hands[1][1]) - 1
\* A bid with a level 1-7.
ClaimNumericBid(b) ==
  Upper(Strip(b)) # <<>> /\ Upper(Strip(b))[1] \in {"1", "2", "3", "4", "5", "6", "7"}
ClaimHasNumericBid(bidding) ==
  \E k \in 1..Len(bidding) : ClaimNumericBid(bidding[k])
ClaimLastNumeric(bidding) ==
  CHOOSE k \in 1..Len(bidding) :
    /\ ClaimNumericBid(bidding[k])
    /\ \A j \in (k + 1)..Len(bidding) : ~ClaimNumericBid(bidding[j])
\* The seat of the last numeric bid: bids go clockwise from the dealer.
ClaimDeclarerSeat(hands, bidding) ==
  (ClaimDealerSeat(hands) + ClaimLastNumeric(bidding) - 1) % 4
Partnership(seat) == IF seat \in {0, 2} THEN "NS" ELSE "EW"
OtherPartnership(seat) == Partnership((seat + 1) % 4)
\* The seat index of the opening leader and the tricks a partnership wins in
\* the open board's play sequence.
OpeningLeader ==
  Val(determine_first_player(current_play_sequence[1],
                             Val(current_board["hands"])).value)
TricksWonBy(side) ==
  SimLoop(SimStart(OpeningLeader), current_play_sequence, 1,
          get_trump_from_bidding(current_bidding), side).won
\* The step emitted a record whose tricks were simulated.
EmittedSimulated ==
  FlushDone /\ Emitted /\ ~ExplicitStored /\ ~IsNone(NewRecord["tricks"])

RankOrder == <<"2", "3", "4", "5", "6", "7", "8", "9", "T", "J", "Q", "K", "A">>
ClaimRankValue(r) == 1 + (CHOOSE i \in 1..13 : RankOrder[i] = r)
\* 100 + rank for a trump, the rank for a card of the led suit, 0 otherwise.
ClaimCardValue(card, led, trump) ==
  IF ~IsNone(trump) /\ Val(trump) = <<card[1]>> THEN 100 + ClaimRankValue(card[2])
  ELSE IF card[1] = led THEN ClaimRankValue(card[2])
  ELSE 0
ClaimIsTrump(card, trump) == ~IsNone(trump) /\ Val(trump) = <<card[1]>>
TwCardsPlayed == [k \in 1..Len(tw_trick) |-> tw_trick[k][1]]
ScenarioA == <<<<"H", "9">>, <<"H", "2">>, <<"H", "A">>, <<"D", "3">>>>
ScenarioB == <<<<"C", "5">>, <<"C", "9">>, <<"S", "A">>, <<"C", "2">>>>

\* C6: the winner determine_trick_winner returns is the player of a card of
\* the trick whose value (100 + rank for a trump, rank for the led suit, 0
\* otherwise) no card of the trick exceeds; so a trump in the trick means a
\* trump wins, and the winning card is a trump or of the led suit; in
\* scenarios A and B with trump S the third player wins.
C6_HighestValueWins ==
  ~IsNone(tw_out) =>
    /\ \E k \in 1..4 :
         /\ tw_trick[k] = <<Val(tw_out).card, Val(tw_out).player>>
         /\ \A j \in 1..4 :
              ClaimCardValue(tw_trick[j][1], tw_trick[1][1][1], tw_trump)
                <= ClaimCardValue(tw_trick[k][1], tw_trick[1][1][1], tw_trump)
    /\ (\E j \in 1..4 : ClaimIsTrump(tw_trick[j][1], tw_trump)) =>
         ClaimIsTrump(Val(tw_out).card, tw_trump)
    /\ \/ ClaimIsTrump(Val(tw_out).card, tw_trump)
       \/ Val(tw_out).card[1] = tw_trick[1][1][1]
    /\ (TwCardsPlayed \in {ScenarioA, ScenarioB} /\ tw_trump = Some(<<"S">>)) =>
         Val(tw_out).player = tw_trick[3][2]

\* Scenario B decided: the spade ace of the third player beats the led clubs.
C6_Witness ==
  /\ ~IsNone(tw_out)
  /\ TwCardsPlayed = ScenarioB
  /\ tw_trump = Some(<<"S">>)
  /\ Val(tw_out).card = <<"S", "A">>
  /\ Val(tw_out).player = tw_trick[3][2]

\* ---- C7
\* The seat that leads the trick being collected: the first-player index for
\* the first trick, afterwards the seat determine_trick_winner returned for
\* the trick before.
TrickLeader ==
  IF IsNone(sim_prev_winner) THEN sim_first ELSE Val(sim_prev_winner)

\* C7: the k-th card of a trick is attributed to seat (leader + k) mod 4
\* counting k from 0, the first trick is led by the first-player index and
\* every later trick by the winner of the trick before it.
C7_SeatsClockwiseFromLeader ==
  /\ \A k \in 1..Len(sim.trick) : sim.trick[k][2] = (TrickLeader + k - 1) % 4
  /\ sim_pc = "append" => sim.leader = (TrickLeader + Len(sim.trick)) % 4

\* The second trick is complete and was led by a winner who is not the seat
\* the rotation alone would have reached.
C7_Witness ==
  /\ sim_done = 1
  /\ Len(sim.trick) = 4
  /\ Val(sim_prev_winner) # sim_first
  /\ sim.trick[1][2] = Val(sim_prev_winner)

\* ---- C8
\* C8: after n cards exactly floor(n/4) tricks have been evaluated and n mod 4
\* cards wait in an incomplete trick; the value returned for n > 0 cards is
\* the count of those evaluated tricks won, at most floor(n/4): 0 for fewer
\* than 4 cards, and 11 cards give 2 evaluated tricks.
C8_WholeTricksOnly ==
  /\ sim_pc \in {"append", "returned"} =>
       /\ sim_done = sim_n \div 4
       /\ Len(sim.trick) = sim_n % 4
  /\ sim.won <= sim_done
  /\ (sim_pc = "returned" /\ sim_n > 0) =>
       /\ sim_result = Some(sim.won)
       /\ Val(sim_result) <= sim_n \div 4
       /\ sim_n < 4 => sim_result = Some(0)
       /\ sim_n = 11 => sim_done = 2

\* Eleven cards were played, two tricks evaluated and both counted.
C8_Witness ==
  /\ sim_pc = "returned"
  /\ sim_n = 11
  /\ sim_done = 2
  /\ Len(sim.trick) = 3
  /\ sim_result = Some(2)

\* ---- C9
\* The trump the claim names: the strain of the last bid with a level 1-7.
ClaimStrain(c) ==
  CASE c = "C" -> <<"C">> [] c = "D" -> <<"D">> [] c = "H" -> <<"H">>
    [] c = "S" -> <<"S">> [] c = "N" -> <<"N", "T">>
ClaimTrump(bidding) ==
  IF ~ClaimHasNumericBid(bidding) THEN None
  ELSE Some(ClaimStrain(Upper(Strip(bidding[ClaimLastNumeric(bidding)]))[2]))

\* C9: the trump stored at finalization is the strain of the last bid whose
\* level is numeric, C, D, H, S as they are and N as NT, whatever passes or
\* doubles follow it; without a numeric bid it is unresolved.
C9_TrumpOfLastNumericBid ==
  ~IsNone(ba_out) => Val(ba_out) = ClaimTrump(ba_bids)

\* 1C, 3N, double, pass: the trump is NT.
C9_Witness ==
  /\ ba_bids = <<<<"1", "C">>, <<"3", "N">>, <<"D">>, <<"P">>>>
  /\ ba_out = Some(Some(<<"N", "T">>))

\* ---- C11
\* C11: no token sequence makes the parser stop with an unhandled error:
\* the run is reading its input or has ended with the records written.
C11_NeverRaises == pc # "raised"

\* ---- C12
\* The cards of a hand string by the grammar: every rank character that has
\* a suit letter before it, under the most recent one.
ClaimIsCardAt(hand, j) ==
  hand[j] \in RankChars /\ \E i \in 1..(j - 1) : hand[i] \in SuitLetters
ClaimSuitPos(hand, j) ==
  CHOOSE i \in 1..(j - 1) :
    /\ hand[i] \in SuitLetters
    /\ \A k \in (i + 1)..(j - 1) : hand[k] \notin SuitLetters
ClaimCardAt(hand, j) == <<hand[ClaimSuitPos(hand, j)], hand[j]>>
ClaimHolds(hand, card) ==
  \E j \in 1..Len(hand) :
    ClaimIsCardAt(hand, j) /\ ClaimCardAt(hand, j) = Upper(card)
\* The open board's recorded lead is a card no stored hand holds.
ClaimLeadUnowned ==
  /\ Len(Val(current_board["first_card"])) = 2
  /\ \A i \in 1..4 :
       ~ClaimHolds(Val(current_board["hands"])[i], Val(current_board["first_card"]))

\* C12: a board whose first played card is in none of its four hands is not
\* emitted when it is finalized.
C12_UnownedLeadDropped ==
  [][(FlushDone /\ HandsStored /\ LeadRecorded /\ ClaimLeadUnowned) =>
       ~Emitted]_vars

\* ---- C14
ClaimDeck == SuitLetters \X RankChars
ClaimPositions(hands) ==
  UNION {{<<i, j>> : j \in 1..Len(hands[i])} : i \in 1..Len(hands)}
\* How many times the four hands hold a card.
ClaimCopies(hands, c) ==
  Cardinality({p \in ClaimPositions(hands) :
                 /\ ClaimIsCardAt(hands[p[1]], p[2])
                 /\ ClaimCardAt(hands[p[1]], p[2]) = c})
ClaimPartition(hands) == \A c \in ClaimDeck : ClaimCopies(hands, c) = 1

\* C14: the four hands of every emitted record hold each of the 52 cards
\* exactly once.
C14_HandsPartitionDeck ==
  \A r \in 1..Len(boards) :
    (~IsNone(boards[r]["hands"]) /\ Len(Val(boards[r]["hands"])) = 4) =>
      ClaimPartition(Val(boards[r]["hands"]))

\* ---- C15
\* The seat of the k-th bid (k from 0): clockwise from the dealer's seat.
ClaimBidSeat(hands, k) == (ClaimDealerSeat(hands) + k) % 4
\* The open board's first played card is held by a stored hand.
LeadOwned ==
  /\ current_play_sequence # <<>>
  /\ Len(current_play_sequence[1]) >= 2
  /\ ~IsNone(determine_first_player(current_play_sequence[1],
                                     Val(current_board["hands"])).value)

\* C15: with a dealer digit in the hands tag the k-th bid belongs to the
\* seat k places clockwise from the dealer, so the side the program takes
\* for the bidders of the contract is the partnership of the seat of the
\* last numeric bid.
C15_BidSeatsFromDealer ==
  (/\ pc = "reading" /\ in_board /\ HandsStored
   /\ ClaimDealerKnown(Val(current_board["hands"]))
   /\ ClaimHasNumericBid(current_bidding)
   /\ LeadOwned) =>
    declarer_side(OpeningLeader) =
      Partnership(ClaimBidSeat(Val(current_board["hands"]),
                               ClaimLastNumeric(current_bidding) - 1))

\* ---- C19
\* C19: while a board is open the recorded lead is unresolved exactly when
\* no card was played, and is otherwise the first card of the play sequence.
C19_LeadIsFirstPlay ==
  (pc = "reading" /\ in_board) =>
    IF current_play_sequence = <<>>
      THEN IsNone(Get(current_board, "first_card"))
    ELSE Get(current_board, "first_card") = Some(current_play_sequence[1])

\* Two different cards were played and the lead is still the first.
C19_Witness ==
  /\ pc = "reading" /\ in_board
  /\ Len(current_play_sequence) >= 2
  /\ current_play_sequence[2] # current_play_sequence[1]
  /\ current_board["first_card"] = Some(current_play_sequence[1])

\* ---- C13
\* A hand string made of suit letters, rank characters and digits only.
ClaimHandChars(hand) ==
  \A j \in 1..Len(hand) : hand[j] \in SuitLetters \cup RankChars \cup DigitChars

\* C13: no emitted record has a hand string with a character that is
\* neither a suit letter nor a rank character.
C13_MalformedHandsDropped ==
  \A r \in 1..Len(tx_acc.boards) :
    \A i \in 1..Len(Val(tx_acc.boards[r]["hands"])) :
      ClaimHandChars(Val(tx_acc.boards[r]["hands"])[i])

\* ---- C17, C18
\* The tag of a written token and its lower-case form.
ClaimLowerChar(c) ==
  CASE c = "P" -> "p" [] c = "C" -> "c" [] c = "Q" -> "q" [] c = "X" -> "x"
    [] c = "M" -> "m" [] c = "D" -> "d" [] c = "B" -> "b" [] OTHER -> c
ClaimTag(tok) == SubSeq(tok, 1, NextBar(tok, 1) - 1)
ClaimLower(s) == [i \in 1..Len(s) |-> ClaimLowerChar(s[i])]
ClaimKnownTag(tok) == ClaimLower(ClaimTag(tok)) \in TagWords
ClaimLowerTag(tok) ==
  [i \in 1..Len(tok) |->
     IF i < NextBar(tok, 1) THEN ClaimLowerChar(tok[i]) ELSE tok[i]]
\* The text of a sequence of tokens.
RECURSIVE ClaimText(_)
ClaimText(tokens) ==
  IF tokens = <<>> THEN <<>> ELSE Head(tokens) \o ClaimText(Tail(tokens))

\* C17: the tokens whose tag is none of the five leave no trace: the records
\* of a transcript are those of the transcript without these tokens.
C17_UnknownTagsIgnored ==
  tx_pc = "done" =>
    tx_acc.boards =
      parse_line(ClaimText(SelectSeq(tx_tokens, ClaimKnownTag))).boards

\* C18: the case of the tag letters does not matter: the records of a
\* transcript are those of the transcript with every tag in lower case.
C18_TagCaseIgnored ==
  tx_pc = "done" =>
    tx_acc.boards =
      parse_line(ClaimText([k \in 1..Len(tx_tokens) |->
                              ClaimLowerTag(tx_tokens[k])])).boards

\* ---- C16
\* C16: once the late hands tag has arrived the two readings of the board
\* agree on everything: the stored bid sequence, the hands, the cards, and
\* at the end the emitted record with its trump and tricks.
C16_HandsBidsOrderFree ==
  ord_pc \in {"hands", "done"} => ord_late = ord_first

\* Two bids came before the hands tag and the record has a trump and
\* simulated tricks.
C16_Witness ==
  /\ ord_pc = "done"
  /\ ord_early = 2
  /\ Len(ord_late.boards) = 1
  /\ ord_late.boards[1]["trump"] = Some(<<"H">>)
  /\ ord_late.boards[1]["tricks"] = Some(0)

\* ---- C20
\* A valid hand string: a run of digits, then suit letters each followed by
\* rank characters.
ClaimDigitRun(s) ==
  CHOOSE d \in 0..Len(s) :
    /\ \A i \in 1..d : s[i] \in DigitChars
    /\ d < Len(s) => s[d + 1] \notin DigitChars
ClaimValidHand(s) ==
  /\ \A i \in (ClaimDigitRun(s) + 1)..Len(s) : s[i] \in SuitLetters \cup RankChars
  /\ ClaimDigitRun(s) < Len(s) => s[ClaimDigitRun(s) + 1] \in SuitLetters
\* The cards of a hand string in order.
RECURSIVE ClaimCardsFrom(_, _)
ClaimCardsFrom(s, j) ==
  IF j > Len(s) THEN <<>>
  ELSE (IF ClaimIsCardAt(s, j) THEN <<ClaimCardAt(s, j)>> ELSE <<>>)
         \o ClaimCardsFrom(s, j + 1)
\* A hand string rebuilt from cards: suit and rank of each card in turn.
RECURSIVE ClaimRebuild(_)
ClaimRebuild(cards) ==
  IF cards = <<>> THEN <<>> ELSE Head(cards) \o ClaimRebuild(Tail(cards))

\* C20: on a valid hand string parse_hand raises nothing and returns, in
\* order, one card for each rank character under its most recent suit
\* letter, the leading digits ignored; parsing the string rebuilt from those
\* cards returns the same cards.
C20_ParseHandRoundTrip ==
  (~IsNone(ph_out) /\ ClaimValidHand(ph_str)) =>
    /\ ~Val(ph_out).raised
    /\ Val(ph_out).cards = ClaimCardsFrom(ph_str, 1)
    /\ parse_hand(ClaimRebuild(Val(ph_out).cards)) = Val(ph_out)

\* 3SAH3: the leading 3 is dropped, the last 3 is the heart three.
C20_Witness ==
  /\ ph_str = <<"3", "S", "A", "H", "3">>
  /\ ph_out = Some([raised |-> FALSE,
                     cards |-> <<<<"S", "A">>, <<"H", "3">>>>])

\* ---- C21
\* A malformed hand string: after the leading digit run a rank character
\* stands before any suit letter, or some character is neither a suit
\* letter nor a rank character.
ClaimMalformedHand(s) ==
  \/ \E i \in (ClaimDigitRun(s) + 1)..Len(s) :
       s[i] \notin SuitLetters \cup RankChars
  \/ \E i \in (ClaimDigitRun(s) + 1)..Len(s) :
       /\ s[i] \in RankChars
       /\ \A k \in (ClaimDigitRun(s) + 1)..(i - 1) : s[k] \notin SuitLetters

C22_NoTrumpHighestOfLedSuit ==
  (~IsNone(tw_out) /\ tw_trump \in {None, Some(<<"N", "T">>)}) =>
    /\ \E k \in 1..4 : tw_trick[k] = <<Val(tw_out).card, Val(tw_out).player>>
    /\ Val(tw_out).card[1] = tw_trick[1][1][1]
    /\ \A j \in 1..4 :
         tw_trick[j][1][1] = tw_trick[1][1][1] =>
           ClaimRankValue(tw_trick[j][1][2]) <= ClaimRankValue(Val(tw_out).card[2])

\* Scenario B at no-trump: the spade ace wins nothing, the club nine of the
\* second player takes the trick.
C22_Witness ==
  /\ ~IsNone(tw_out)
  /\ TwCardsPlayed = ScenarioB
  /\ tw_trump = Some(<<"N", "T">>)
  /\ Val(tw_out).card = <<"C", "9">>
  /\ Val(tw_out).player = tw_trick[2][2]

\* ---- C26
\* The position in the trick of the returned winner (the seats of a trick
\* are distinct).
ClaimWinnerPos ==
  CHOOSE k \in 1..4 : tw_trick[k][2] = Val(tw_out).player
ClaimValueAt(j) ==
  ClaimCardValue(tw_trick[j][1], tw_trick[1][1][1], tw_trump)

\* C26: the winner is the earliest card of maximal value: every card played
\* before it is worth strictly less and no card played after it is worth
\* more; so of equal cards the earlier wins and the leader wins unless a
\* later card strictly exceeds the lead.
C26_EarliestOfEqualsWins ==
  ~IsNone(tw_out) =>
    /\ tw_trick[ClaimWinnerPos][1] = Val(tw_out).card
    /\ \A j \in 1..(ClaimWinnerPos - 1) : ClaimValueAt(j) < ClaimValueAt(ClaimWinnerPos)
    /\ \A j \in (ClaimWinnerPos + 1)..4 : ClaimValueAt(j) <= ClaimValueAt(ClaimWinnerPos)
    /\ (\A j \in 2..4 : ClaimValueAt(j) <= ClaimValueAt(1)) => ClaimWinnerPos = 1

\* The heart ace is played twice: the second player's one wins, the third
\* player's does not.
C26_Witness ==
  /\ ~IsNone(tw_out)
  /\ TwCardsPlayed = <<<<"H", "2">>, <<"H", "A">>, <<"H", "A">>, <<"D", "3">>>>
  /\ Val(tw_out).player = tw_trick[2][2]

\* ---- C23
\* The index of the first stored hand that holds the first played card.
ClaimLeaderIndex ==
  (CHOOSE i \in 1..4 :
     /\ ClaimHolds(Val(current_board["hands"])[i], current_play_sequence[1])
     /\ \A k \in 1..(i - 1) :
          ~ClaimHolds(Val(current_board["hands"])[k], current_play_sequence[1])) - 1
\* The seats whose tricks are counted for a leader index.
ClaimCountedSeats(index) == IF index \in {0, 2} THEN {1, 3} ELSE {0, 2}
\* The four cards from position i with their seats, clockwise from leader.
ClaimTrickAt(play, i, leader) ==
  [k \in 1..4 |-> <<play[i + k - 1], (leader + k - 1) % 4>>]
\* The complete tricks from position i on that a seat of seats wins.
RECURSIVE ClaimTally(_, _, _, _, _)
ClaimTally(play, i, leader, trump, seats) ==
  IF i + 3 > Len(play) THEN 0
  ELSE LET w == determine_trick_winner(ClaimTrickAt(play, i, leader), trump).player
       IN (IF w \in seats THEN 1 ELSE 0) + ClaimTally(play, i + 4, w, trump, seats)

\* C23: a simulated tricks value counts the tricks won by seats {1,3} when
\* the first stored hand holding the first played card has index 0 or 2, and
\* by seats {0,2} when it has index 1 or 3; the bids enter only through the
\* trump.
C23_CountedSeatsFromLeaderIndex ==
  [][EmittedSimulated =>
       /\ ClaimLeaderIndex \notin ClaimCountedSeats(ClaimLeaderIndex)
       /\ NewRecord["tricks"] =
            Some(ClaimTally(current_play_sequence, 1, ClaimLeaderIndex,
                            NewRecord["trump"],
                            ClaimCountedSeats(ClaimLeaderIndex)))]_vars

\* A record of a board with bids whose leader, index 2, won the only trick:
\* no trick is counted.
C23_Witness ==
  \E i \in 1..Len(boards) :
    /\ boards[i]["tricks"] = Some(0)
    /\ boards[i]["hands"] = Some(Split(MdHandsA))
    /\ boards[i]["first_card"] = Some(<<"H", "A">>)
    /\ ~IsNone(boards[i]["trump"])

\* ---- C24
\* A step that consumed a token other than qx while no board was open.
ClaimIdleToken == ~in_board /\ pc = "reading" /\ ntok' = ntok + 1 /\ nqx' = nqx
\* The accumulator and the records as parse_bridge_file starts with them.
ClaimNothingAccumulated ==
  /\ boards = <<>>
  /\ current_board = EmptyDict
  /\ current_play_sequence = <<>>
  /\ current_bidding = <<>>

\* C24: an md, mb, pc or mc token met while no board is open changes nothing
\* and finds nothing accumulated, so that the first qx emits no record and
\* starts from a fresh board; no board is open exactly before the first qx
\* and after the last flush.
C24_IdleTokensIgnored ==
  [][/\ ~in_board <=> (nqx = 0 \/ pc = "done")
     /\ ~in_board' <=> (nqx' = 0 \/ pc' = "done")
     /\ ClaimIdleToken =>
          /\ ClaimNothingAccumulated
          /\ UNCHANGED <<boards, current_board, current_play_sequence,
                         current_bidding, in_board, pc, csv_rows, origin,
                         explicit_mc>>
     /\ (FlushDone /\ nqx = 0) => ~Emitted]_vars

\* Four tokens were read before any qx.
C24_Witness == nqx = 0 /\ ntok = 4 /\ ~in_board /\ pc = "reading"

\* ---- C25
\* The starts of the tokens the scan has consumed: the matches of tag_pattern
\* in the line that begin before position limit.
RECURSIVE ClaimTokenStarts(_, _, _)
ClaimTokenStarts(line, m, limit) ==
  IF m = 0 \/ m >= limit THEN <<>>
  ELSE <<m>> \o ClaimTokenStarts(line, NextMatch(line, MatchEndAt(line, m) + 1), limit)
ClaimTagAt(line, m) == SubSeq(line, m, m + 1)
ClaimDataAt(line, m) == SubSeq(line, m + 3, MatchEndAt(line, m) - 1)
\* A hands token whose value has exactly four comma-separated pieces.
ClaimWellFormedMd(line, m) ==
  /\ ClaimTagAt(line, m) = <<"m", "d">>
  /\ Cardinality({i \in (m + 3)..(MatchEndAt(line, m) - 1) : line[i] = ","}) = 3
\* The hands the open board should hold after the tokens starts: those of the
\* last well-formed hands token since the last board start, if there is one.
ClaimLastQx(line, starts) ==
  CHOOSE q \in 1..Len(starts) :
    /\ ClaimTagAt(line, starts[q]) = <<"q", "x">>
    /\ \A k \in (q + 1)..Len(starts) : ClaimTagAt(line, starts[k]) # <<"q", "x">>
ClaimMdSince(line, starts, q) ==
  {k \in (q + 1)..Len(starts) : ClaimWellFormedMd(line, starts[k])}
ClaimLastOf(S) == CHOOSE k \in S : \A j \in S : j <= k
ClaimHandsOf(line, starts, S) ==
  IF S = {} THEN None
  ELSE Some(Split(ClaimDataAt(line, starts[ClaimLastOf(S)])))
ClaimStoredHands(line, limit) ==
  ClaimHandsOf(line, ClaimTokenStarts(line, NextMatch(line, 1), limit),
               ClaimMdSince(line, ClaimTokenStarts(line, NextMatch(line, 1), limit),
                            ClaimLastQx(line, ClaimTokenStarts(line, NextMatch(line, 1), limit))))

\* C25: while a board is open its stored hands are those of the last hands
\* token since the board start whose value has exactly four pieces, unresolved
\* when there is none; a record carries the hands so stored when its board
\* is flushed.
C25_LastWellFormedHandsKept ==
  [][/\ (tx_pc = "scanning" /\ tx_acc.in_board) =>
          Get(tx_acc.current_board, "hands") = ClaimStoredHands(tx_line, tx_pos)
     /\ (tx_pc' = "scanning" /\ tx_acc'.in_board) =>
          Get(tx_acc'.current_board, "hands") = ClaimStoredHands(tx_line', tx_pos')
     /\ (tx_pc = "scanning" /\ Len(tx_acc'.boards) = Len(tx_acc.boards) + 1) =>
          tx_acc'.boards[Len(tx_acc'.boards)]["hands"]
            = ClaimStoredHands(tx_line, tx_pos)]_vars

\* A board with four hands, then three pieces, then four other hands: the
\* board holds the last four once the line is scanned.
C25_Witness ==
  /\ tx_tokens = <<TxQx, TxMd, TxMdThree, TxMdBad>>
  /\ tx_pc = "scanning"
  /\ tx_pos > Len(tx_line)
  /\ Get(tx_acc.current_board, "hands")
       = Some(<<<<"X", "Q", "2">>, <<"H", "2">>, <<"H", "A">>, <<"D", "3">>>>)

\* ---- C27
\* The hand index of a CSV column: south, west, north, east are 0, 1, 2, 3.
ClaimColumnIndex(seat) ==
  CASE seat = "south" -> 0 [] seat = "west" -> 1
    [] seat = "north" -> 2 [] seat = "east" -> 3
\* The seats whose tricks the simulation counts for an opening leader.
ClaimCountedFor(leader) ==
  {seat \in 0..3 : CountsForSide(declarer_side(leader), seat)}
ClaimCardsOfHand(index) ==
  one_hot_cards(parse_hand(Val(ld_board["hands"])[index + 1]).cards)

\* C27: for a row written from a record, the two hands encode_row_to_input
\* encodes are those of the seats whose tricks the simulation counts when the
\* owner of the first card leads, hand index i being column i of south,
\* west, north, east; the owner's hand is not one of them.
C27_EncodedHandsAreCountedSide ==
  (~IsNone(ld_out) /\ ~Val(ld_out).raised) =>
     /\ {ClaimColumnIndex(Val(ld_out).bidding_player),
         ClaimColumnIndex(Val(ld_out).partner)}
          = ClaimCountedFor(ClaimColumnIndex(Val(ld_out).owner))
     /\ ClaimColumnIndex(Val(ld_out).owner)
          \notin {ClaimColumnIndex(Val(ld_out).bidding_player),
                  ClaimColumnIndex(Val(ld_out).partner)}
     /\ Val(ld_out).first_card
          \in ClaimCardsOfHand(ClaimColumnIndex(Val(ld_out).owner))
     /\ Val(ld_out).hand_bidding
          = ClaimCardsOfHand(ClaimColumnIndex(Val(ld_out).bidding_player))
     /\ Val(ld_out).hand_partner
          = ClaimCardsOfHand(ClaimColumnIndex(Val(ld_out).partner))

\* East owns the first card: the hands of south and north are encoded.
C27_Witness ==
  /\ ~IsNone(ld_out)
  /\ ~Val(ld_out).raised
  /\ Val(ld_out).owner = "east"
  /\ Val(ld_out).bidding_player = "south"
  /\ Val(ld_out).hand_bidding = {<<"S", "A">>, <<"H", "9">>}

\* ---- C28
\* The requests issued so far, the one in flight included.
ClaimRequests == Len(dl_log) + (IF dl_pc = "request" THEN 1 ELSE 0)
\* A response that is empty but for blanks, or has the word error in any
\* letter case.
ClaimRejected(content) ==
  \/ \A i \in 1..Len(content) : content[i] = " "
  \/ \E i \in 1..(Len(content) - 4) :
       /\ content[i] \in {"e", "E"}
       /\ content[i + 1] \in {"r", "R"}
       /\ content[i + 2] \in {"r", "R"}
       /\ content[i + 3] \in {"o", "O"}
       /\ content[i + 4] \in {"r", "R"}
ClaimLastOutcome == dl_log[Len(dl_log)]
ClaimDownloadBounded ==
  /\ ClaimRequests <= dl_max_retries
  /\ \A k \in 1..(Len(dl_log) - 1) : dl_log[k].raised
  /\ dl_sleeps = (IF dl_pc = "loop" THEN Len(dl_log)
                  ELSE IF ClaimRequests = 0 THEN 0
                  ELSE ClaimRequests - 1)
  /\ dl_pc = "sleeping" =>
       ClaimLastOutcome.raised /\ Len(dl_log) < dl_max_retries
ClaimDownloadResult ==
  dl_pc = "returned" =>
    IF dl_log = <<>> THEN dl_max_retries = 0 /\ dl_result = None
    ELSE IF ClaimLastOutcome.raised
      THEN dl_result = None /\ Len(dl_log) = dl_max_retries
    ELSE IF ClaimRejected(ClaimLastOutcome.content) THEN dl_result = None
    ELSE dl_result = Some(ClaimLastOutcome.content)

\* C28: download_file issues at most max_retries requests and returns; a
\* further request follows only a request exception and one sleep, while
\* fewer than max_retries requests were made; the first response ends the
\* call, with its text when the text is not blank and has no 'error' in it,
\* with None otherwise; the max_retries-th exception ends it with None.
C28_BoundedRetriesAndReturn ==
  /\ [](ClaimDownloadBounded /\ ClaimDownloadResult)
  /\ <>(dl_pc = "returned")

\* The third request of three is answered with a transcript after two
\* exceptions and two sleeps.
C28_Witness ==
  /\ dl_pc = "returned"
  /\ dl_max_retries = 3
  /\ Len(dl_log) = 3
  /\ dl_sleeps = 2
  /\ dl_result = Some(<<"q", "x", "|", "1", "|">>)

====
